---- MODULE Spec2Model ----
(***************************************************************************)
(* License-gated download API (src/index.js, lines 1-233): the POST        *)
(* /download pipeline, its helpers, the license table and the rate limiter *)
(* object.                                                                  *)
(*                                                                         *)
(* Strings are sequences of one-character strings, so that the regular     *)
(* expression, the substring test and the date conversions are computed.   *)
(* A JSON value of the request body is a record tagged with its type.      *)
(* The clock counts whole seconds since the Unix epoch (Date.now() / 1000).*)
(***************************************************************************)
EXTENDS Integers, Sequences, FiniteSets, TLC

(* ------------------------------------------------------------------ *)
(* Characters and strings                                              *)
(* ------------------------------------------------------------------ *)

DigitChars == <<"0", "1", "2", "3", "4", "5", "6", "7", "8", "9">>

LowerChars ==
  <<"a", "b", "c", "d", "e", "f", "g", "h", "i", "j", "k", "l", "m",
    "n", "o", "p", "q", "r", "s", "t", "u", "v", "w", "x", "y", "z">>

UpperChars ==
  <<"A", "B", "C", "D", "E", "F", "G", "H", "I", "J", "K", "L", "M",
    "N", "O", "P", "Q", "R", "S", "T", "U", "V", "W", "X", "Y", "Z">>

Range(s) == {s[i] : i \in 1..Len(s)}

\* \w of a JavaScript regular expression: [A-Za-z0-9_]
WordChars == Range(DigitChars) \cup Range(LowerChars) \cup Range(UpperChars) \cup {"_"}

\* [\w\-\/] : the character class of the file-name pattern
FileNameClass == WordChars \cup {"-", "/"}

\* String.prototype.includes on strings: needle occurs in hay as a substring
StrIncludes(hay, needle) ==
  \E i \in 0..(Len(hay) - Len(needle)) :
    \A j \in 1..Len(needle) : hay[i + j] = needle[j]

DigitValue(c) == (CHOOSE i \in 1..10 : DigitChars[i] = c) - 1

ToNumber(s, from, to) ==
  LET RECURSIVE Acc(_, _)
      Acc(i, n) == IF i > to THEN n ELSE Acc(i + 1, 10 * n + DigitValue(s[i]))
  IN Acc(from, 0)

\* n written with exactly w decimal digits (String.padStart(w, "0"))
Pad(n, w) ==
  LET RECURSIVE Digs(_, _)
      Digs(k, m) == IF k = 0 THEN <<>> ELSE Append(Digs(k - 1, m \div 10), DigitChars[(m % 10) + 1])
  IN Digs(w, n)

(* ------------------------------------------------------------------ *)
(* Dates: new Date(dateStr), Date.prototype.toISOString                *)
(* ------------------------------------------------------------------ *)

SecondsPerDay == 24 * 60 * 60

\* days since 1970-01-01 of a proleptic Gregorian date
DaysFromCivil(y0, m, d) ==
  LET y   == IF m <= 2 THEN y0 - 1 ELSE y0
      era == y \div 400
      yoe == y - era * 400
      mp  == IF m > 2 THEN m - 3 ELSE m + 9
      doy == (153 * mp + 2) \div 5 + d - 1
      doe == yoe * 365 + yoe \div 4 - yoe \div 100 + doy
  IN era * 146097 + doe - 719468

\* the proleptic Gregorian date of a day number
CivilFromDays(z0) ==
  LET z   == z0 + 719468
      era == z \div 146097
      doe == z - era * 146097
      yoe == (doe - doe \div 1460 + doe \div 36524 - doe \div 146096) \div 365
      doy == doe - (365 * yoe + yoe \div 4 - yoe \div 100)
      mp  == (5 * doy + 2) \div 153
      d   == doy - (153 * mp + 2) \div 5 + 1
      m   == IF mp < 10 THEN mp + 3 ELSE mp - 9
      y   == yoe + era * 400 + (IF m <= 2 THEN 1 ELSE 0)
  IN [year |-> y, month |-> m, day |-> d]

\* new Date("YYYY-MM-DD"): a date-only ISO string is midnight UTC of that day
DateParse(s) ==
  DaysFromCivil(ToNumber(s, 1, 4), ToNumber(s, 6, 7), ToNumber(s, 9, 10)) * SecondsPerDay

\* new Date(t * 1000).toISOString(): "YYYY-MM-DDTHH:mm:ss.000Z"
ToISOString(t) ==
  LET c   == CivilFromDays(t \div SecondsPerDay)
      sod == t % SecondsPerDay
  IN Pad(c.year, 4) \o <<"-">> \o Pad(c.month, 2) \o <<"-">> \o Pad(c.day, 2) \o <<"T">>
     \o Pad(sod \div 3600, 2) \o <<":">> \o Pad((sod % 3600) \div 60, 2) \o <<":">>
     \o Pad(sod % 60, 2) \o <<".", "0", "0", "0", "Z">>

(* ------------------------------------------------------------------ *)
(* JavaScript values of a request body                                 *)
(* ------------------------------------------------------------------ *)

\* a field the JSON body does not have
Undefined == [t |-> "undefined"]

JStr(s) == [t |-> "string", s |-> s]

\* a JSON number, here a natural number
JNum(n) == [t |-> "number", n |-> n]

\* !v is false: undefined, the empty string and 0 are falsy
Truthy(v) ==
  \/ v.t = "string" /\ Len(v.s) > 0
  \/ v.t = "number" /\ v.n # 0

\* the decimal digits of a natural number
RECURSIVE NumToString(_)
NumToString(n) ==
  IF n < 10 THEN <<DigitChars[n + 1]>>
  ELSE Append(NumToString(n \div 10), DigitChars[(n % 10) + 1])

\* String(v)
JsString(v) ==
  IF v.t = "string" THEN v.s
  ELSE IF v.t = "number" THEN NumToString(v.n)
  ELSE <<"u", "n", "d", "e", "f", "i", "n", "e", "d">>

(* ------------------------------------------------------------------ *)
(* String literals of the source                                       *)
(* ------------------------------------------------------------------ *)

K_ABC == <<"A", "B", "C", "-", "1", "2", "3", "-", "X", "Y", "Z">>
K_TEST == <<"T", "E", "S", "T", "-", "9", "9", "9", "-", "K", "E", "Y">>
D_2026_12_31 == <<"2", "0", "2", "6", "-", "1", "2", "-", "3", "1">>
D_2026_01_01 == <<"2", "0", "2", "6", "-", "0", "1", "-", "0", "1">>
H_localhost == <<"l", "o", "c", "a", "l", "h", "o", "s", "t">>
H_127_0_0_1 == <<"1", "2", "7", ".", "0", ".", "0", ".", "1">>
H_woozio_local == <<"w", "o", "o", "z", "i", "o", ".", "l", "o", "c", "a", "l">>
H_demo_yourtheme_com ==
  <<"d", "e", "m", "o", ".", "y", "o", "u", "r", "t", "h", "e", "m", "e", ".", "c", "o", "m">>
F_package_install ==
  <<"p", "a", "c", "k", "a", "g", "e", "-", "i", "n", "s", "t", "a", "l", "l", "_", "_",
    "w", "o", "o", "z", "i", "o", "-", "m", "a", "i", "n", ".", "z", "i", "p">>
F_theme_a_demo ==
  <<"t", "h", "e", "m", "e", "-", "a", "/", "d", "e", "m", "o", ".", "z", "i", "p">>
F_theme_b_demo ==
  <<"t", "h", "e", "m", "e", "-", "b", "/", "d", "e", "m", "o", ".", "z", "i", "p">>

(* ------------------------------------------------------------------ *)
(* License store                                                       *)
(* ------------------------------------------------------------------ *)

LICENSES ==
  (K_ABC :> [active  |-> TRUE,
             expires |-> D_2026_12_31,
             domains |-> <<H_localhost, H_127_0_0_1, H_woozio_local, H_demo_yourtheme_com>>,
             files   |-> <<F_package_install, F_theme_a_demo, F_theme_b_demo>>])
  @@
  (K_TEST :> [active  |-> TRUE,
              expires |-> D_2026_01_01,
              domains |-> <<H_localhost>>,
              files   |-> <<F_package_install>>])

\* the object LICENSES is bound to, as it is now
VARIABLE licenses

\* LICENSES is an object literal: a property read that finds no own property
\* goes on to Object.prototype, whose members are truthy and have no fields
ObjectPrototypeProps ==
  { <<"c", "o", "n", "s", "t", "r", "u", "c", "t", "o", "r">>,
    <<"t", "o", "S", "t", "r", "i", "n", "g">>,
    <<"_", "_", "p", "r", "o", "t", "o", "_", "_">> }

\* LICENSES[license] for a string license
LicenseLookup(license) ==
  IF license \in DOMAIN licenses THEN [t |-> "record", rec |-> licenses[license]]
  ELSE IF license \in ObjectPrototypeProps THEN [t |-> "inherited"]
  ELSE [t |-> "undefined"]

(* ------------------------------------------------------------------ *)
(* Helpers                                                             *)
(* ------------------------------------------------------------------ *)

\* the comparison with <= for <
isExpiredInclusive(dateStr, t) == DateParse(dateStr) <= t

\* new Date(dateStr) < new Date(), the clock reading t
isExpired(dateStr, t) == DateParse(dateStr) < t

\* the pattern without its end anchor: /^[\w\-\/]+\.zip/
validateFileNameUnanchored(file) ==
  LET f == JsString(file) IN
  \E n \in 5..Len(f) :
    /\ SubSeq(f, n - 3, n) = <<".", "z", "i", "p">>
    /\ \A i \in 1..(n - 4) : f[i] \in FileNameClass

\* the pattern with the dot in its character class: /^[\w.\-\/]+\.zip$/
validateFileNameWithDots(file) ==
  LET f == JsString(file)
      n == Len(f)
  IN /\ n >= 5
     /\ SubSeq(f, n - 3, n) = <<".", "z", "i", "p">>
     /\ \A i \in 1..(n - 4) : f[i] \in FileNameClass \cup {"."}

\* /^[\w\-\/]+\.zip$/.test(file): test() matches against String(file)
validateFileName(file) ==
  LET f == JsString(file)
      n == Len(f)
  IN /\ n >= 5
     /\ SubSeq(f, n - 3, n) = <<".", "z", "i", "p">>
     /\ \A i \in 1..(n - 4) : f[i] \in FileNameClass

licenseNotFound == "License not found"
licenseInactive == "License inactive"
licenseExpired == "License expired"
domainNotAllowed == "Domain not allowed"
fileNotPermitted == "File not permitted for this license"

\* the TypeError of calling domain.includes when domain has no such method
typeError == "TypeError"

\* validateLicense without its last check
validateLicenseNoFileCheck(license, domain, file, t) ==
  LET lic == LicenseLookup(JsString(license)) IN
  IF lic.t = "undefined" THEN [ok |-> FALSE, error |-> licenseNotFound, threw |-> FALSE]
  ELSE IF lic.t = "inherited" \/ ~lic.rec.active THEN [ok |-> FALSE, error |-> licenseInactive, threw |-> FALSE]
  ELSE IF isExpired(lic.rec.expires, t) THEN [ok |-> FALSE, error |-> licenseExpired, threw |-> FALSE]
  ELSE IF domain.t # "string" THEN [ok |-> FALSE, error |-> typeError, threw |-> TRUE]
  ELSE IF ~(\E i \in 1..Len(lic.rec.domains) : StrIncludes(domain.s, lic.rec.domains[i]))
    THEN [ok |-> FALSE, error |-> domainNotAllowed, threw |-> FALSE]
  ELSE [ok |-> TRUE, error |-> "none", threw |-> FALSE]

\* validateLicense with lic.domains.includes(domain): the domain is an element of the list
validateLicenseExactDomain(license, domain, file, t) ==
  LET lic == LicenseLookup(JsString(license)) IN
  IF lic.t = "undefined" THEN [ok |-> FALSE, error |-> licenseNotFound, threw |-> FALSE]
  ELSE IF lic.t = "inherited" \/ ~lic.rec.active THEN [ok |-> FALSE, error |-> licenseInactive, threw |-> FALSE]
  ELSE IF isExpired(lic.rec.expires, t) THEN [ok |-> FALSE, error |-> licenseExpired, threw |-> FALSE]
  ELSE IF ~(\E i \in 1..Len(lic.rec.domains) : (domain.t = "string" /\ lic.rec.domains[i] = domain.s))
    THEN [ok |-> FALSE, error |-> domainNotAllowed, threw |-> FALSE]
  ELSE IF ~(\E i \in 1..Len(lic.rec.files) : (file.t = "string" /\ lic.rec.files[i] = file.s))
    THEN [ok |-> FALSE, error |-> fileNotPermitted, threw |-> FALSE]
  ELSE [ok |-> TRUE, error |-> "none", threw |-> FALSE]

\* validateLicense({ license, domain, file }) at clock reading t. The three are
\* values of the body: LICENSES[license] converts the key to a string,
\* domain.includes is a function for a string and its call throws for a number
\* (threw), and lic.files.includes(file) compares with ===
validateLicense(license, domain, file, t) ==
  LET lic == LicenseLookup(JsString(license)) IN
  IF lic.t = "undefined" THEN [ok |-> FALSE, error |-> licenseNotFound, threw |-> FALSE]
  ELSE IF lic.t = "inherited" \/ ~lic.rec.active THEN [ok |-> FALSE, error |-> licenseInactive, threw |-> FALSE]
  ELSE IF isExpired(lic.rec.expires, t) THEN [ok |-> FALSE, error |-> licenseExpired, threw |-> FALSE]
  ELSE IF domain.t # "string" THEN [ok |-> FALSE, error |-> typeError, threw |-> TRUE]
  ELSE IF ~(\E i \in 1..Len(lic.rec.domains) : StrIncludes(domain.s, lic.rec.domains[i]))
    THEN [ok |-> FALSE, error |-> domainNotAllowed, threw |-> FALSE]
  ELSE IF ~(\E i \in 1..Len(lic.rec.files) : (file.t = "string" /\ lic.rec.files[i] = file.s))
    THEN [ok |-> FALSE, error |-> fileNotPermitted, threw |-> FALSE]
  ELSE [ok |-> TRUE, error |-> "none", threw |-> FALSE]

\* a validateLicense that marks the record it finds expired as inactive
validateLicenseDeactivating(table, license, t) ==
  IF license \in DOMAIN table /\ isExpired(table[license].expires, t)
    THEN [table EXCEPT ![license].active = FALSE]
    ELSE table

\* the table after validateLicense(license, ...) ran on it at clock reading t:
\* the function reads LICENSES[license] and the record's fields, and assigns none
validateLicenseEffect(table, license, t) == table

\* the validity generateSignedUrl asks of getSignedUrl, in seconds
signExpiresIn == 60 * 10

\* generateSignedUrl(fileKey): the call it makes to getSignedUrl
\* a signing call answered from a URL remembered for the validity period
generateSignedUrlRemembered(fileKey, t) ==
  [Key |-> fileKey, expiresIn |-> signExpiresIn, at |-> t - (t % signExpiresIn)]

generateSignedUrl(fileKey, t) == [Key |-> fileKey, expiresIn |-> signExpiresIn, at |-> t]

(* ------------------------------------------------------------------ *)
(* Rate limiter                                                        *)
(* ------------------------------------------------------------------ *)

\* windowMs, in seconds of the clock
windowMs == 15 * 60

max == 30

tooManyRequests == "Too many requests. Please try again later."

\* ipKeyGenerator(req): an IPv4 address is its own key
ipKeyGenerator(ip) == ip

\* keyGenerator: req.body.license || ipKeyGenerator(req)
keyGenerator(body, ip) ==
  IF Truthy(body.license) THEN JsString(body.license) ELSE ipKeyGenerator(ip)

NoBucket == [count |-> 0, resetTime |-> 0]

\* the store's increment of one key at clock reading t
Increment(store, key, t) ==
  IF store[key].count = 0 \/ store[key].resetTime <= t
    THEN [store EXCEPT ![key] = [count |-> 1, resetTime |-> t + windowMs]]
    ELSE [store EXCEPT ![key].count = @ + 1]

(* ------------------------------------------------------------------ *)
(* Responses                                                           *)
(* ------------------------------------------------------------------ *)

NoData == [t |-> "none"]
NoRes == [status |-> 0, success |-> FALSE, error |-> "none", message |-> "none", data |-> NoData]

\* res.status(code).json({ success: false, error })
ErrorRes(code, error) ==
  [status |-> code, success |-> FALSE, error |-> error, message |-> "none", data |-> NoData]

missingFields == "Missing license, domain, or file"
invalidFileName == "Invalid file name"
signFailed == "Failed to generate download URL. Please try again later."
verified == "License and domain verified"

\* the catch block answering with err.message
SignFailedResLeaky(cause) == ErrorRes(500, cause)

\* the handler's handling of a rejected signing call
SignFailedRes(cause) == ErrorRes(500, signFailed)

\* the seconds the success response adds to Date.now() and reports as expires_in
expiresIn == 600

\* the success response with expires_at taken from the bare clock reading
SuccessResNoOffset(signedUrl, file, t) ==
  [status |-> 200, success |-> TRUE, error |-> "none", message |-> verified,
   data |-> [t |-> "data", url |-> signedUrl, expires_in |-> expiresIn,
             expires_at |-> ToISOString(t), file |-> file]]

\* res.json({ success: true, ... }) built at clock reading t
SuccessRes(signedUrl, file, t) ==
  [status |-> 200, success |-> TRUE, error |-> "none", message |-> verified,
   data |-> [t |-> "data", url |-> signedUrl, expires_in |-> expiresIn,
             expires_at |-> ToISOString(t + expiresIn), file |-> file]]

(* ------------------------------------------------------------------ *)
(* POST /download                                                      *)
(* ------------------------------------------------------------------ *)

NoSign == [Key |-> <<>>, expiresIn |-> 0, at |-> 0]

\* the handler with the input check reading license and domain only
downloadFileUnchecked(body, t) ==
  IF ~Truthy(body.license) \/ ~Truthy(body.domain)
    THEN [trace |-> <<>>, res |-> ErrorRes(400, missingFields), sign |-> NoSign, threw |-> FALSE]
  ELSE IF ~validateFileName(body.file)
    THEN [trace |-> <<"validateFileName">>, res |-> ErrorRes(400, invalidFileName),
          sign |-> NoSign, threw |-> FALSE]
  ELSE LET validation == validateLicense(body.license, body.domain, body.file, t) IN
    IF validation.threw
      THEN [trace |-> <<"validateFileName", "validateLicense">>,
            res |-> NoRes, sign |-> NoSign, threw |-> TRUE]
    ELSE IF ~validation.ok
      THEN [trace |-> <<"validateFileName", "validateLicense">>,
            res |-> ErrorRes(403, validation.error), sign |-> NoSign, threw |-> FALSE]
      ELSE [trace |-> <<"validateFileName", "validateLicense", "generateSignedUrl">>,
            res |-> NoRes, sign |-> generateSignedUrl(body.file.s, t), threw |-> FALSE]

\* the handler up to its first await, at clock reading t: the calls it makes,
\* the response it sends (NoRes: none yet), the signing call it awaits, and
\* whether it threw (the promise of the async handler is then rejected)
download(body, t) ==
  IF ~Truthy(body.license) \/ ~Truthy(body.domain) \/ ~Truthy(body.file)
    THEN [trace |-> <<>>, res |-> ErrorRes(400, missingFields), sign |-> NoSign, threw |-> FALSE]
  ELSE IF ~validateFileName(body.file)
    THEN [trace |-> <<"validateFileName">>, res |-> ErrorRes(400, invalidFileName),
          sign |-> NoSign, threw |-> FALSE]
  ELSE LET validation == validateLicense(body.license, body.domain, body.file, t) IN
    IF validation.threw
      THEN [trace |-> <<"validateFileName", "validateLicense">>,
            res |-> NoRes, sign |-> NoSign, threw |-> TRUE]
    ELSE IF ~validation.ok
      THEN [trace |-> <<"validateFileName", "validateLicense">>,
            res |-> ErrorRes(403, validation.error), sign |-> NoSign, threw |-> FALSE]
      ELSE [trace |-> <<"validateFileName", "validateLicense", "generateSignedUrl">>,
            res |-> NoRes, sign |-> generateSignedUrl(body.file.s, t), threw |-> FALSE]

\* what handles POST /download, in the order it was registered with the app
downloadStack == <<"cors", "json", "download">>

\* the stack from its i-th layer on, for a request with this body and address
\* at clock reading t, the limiter's store being store
RECURSIVE RunStack(_, _, _, _, _, _)
RunStack(i, store, trace, body, ip, t) ==
  IF i > Len(downloadStack)
    THEN [hits |-> store, trace |-> trace, res |-> ErrorRes(404, "none"), sign |-> NoSign, threw |-> FALSE]
  ELSE IF downloadStack[i] = "limiter"
    THEN LET key == keyGenerator(body, ip)
             counted == Increment(store, key, t)
         IN IF counted[key].count > max
              THEN [hits |-> counted, trace |-> Append(trace, "limiter"),
                    res |-> ErrorRes(429, tooManyRequests), sign |-> NoSign, threw |-> FALSE]
              ELSE RunStack(i + 1, counted, Append(trace, "limiter"), body, ip, t)
  ELSE IF downloadStack[i] = "download"
    THEN LET d == download(body, t)
         IN [hits |-> store, trace |-> trace \o d.trace, res |-> d.res, sign |-> d.sign,
             threw |-> d.threw]
  ELSE RunStack(i + 1, store, trace, body, ip, t)

(* ------------------------------------------------------------------ *)
(* Inputs and bounds                                                   *)
(* ------------------------------------------------------------------ *)

L_abc_lower == <<"a", "b", "c", "-", "1", "2", "3", "-", "x", "y", "z">>
L_constructor == <<"c", "o", "n", "s", "t", "r", "u", "c", "t", "o", "r">>
H_evil == <<"e", "v", "i", "l", ".", "c", "o", "m">>
H_xlocalhost == <<"x", "l", "o", "c", "a", "l", "h", "o", "s", "t", ".", "e", "v", "i", "l", ".", "c", "o", "m">>
F_passwd == <<".", ".", "/", ".", ".", "/", "e", "t", "c", "/", "p", "a", "s", "s", "w", "d">>
F_a_txt == <<"a", ".", "t", "x", "t">>
F_pkg_rm == <<"p", "k", "g", ".", "z", "i", "p", ";", "r", "m">>
IP_1 == <<"1", "0", ".", "0", ".", "0", ".", "1">>
IP_2 == <<"1", "0", ".", "0", ".", "0", ".", "2">>

LicenseInputs == {Undefined, JStr(K_ABC), JStr(K_TEST), JStr(L_abc_lower), JStr(L_constructor)}
DomainInputs == {Undefined, JStr(H_demo_yourtheme_com), JStr(H_localhost), JStr(H_xlocalhost), JStr(H_evil)}
FileInputs == {Undefined, JStr(F_theme_a_demo), JStr(F_package_install),
               JStr(F_passwd), JStr(F_a_txt), JStr(F_pkg_rm)}
IpInputs == {IP_1, IP_2}

Bodies == [license : LicenseInputs, domain : DomainInputs, file : FileInputs]

\* values that are present and not strings, or not all of them
N_123 == JNum(123)
TypedLicenseInputs == {JStr(K_ABC), N_123}
TypedDomainInputs == {JStr(H_localhost), N_123, JNum(0)}
TypedFileInputs == {JStr(F_theme_a_demo), JStr(F_a_txt), N_123}

TypedBodies == [license : TypedLicenseInputs, domain : TypedDomainInputs, file : TypedFileInputs]

Identities ==
  {JsString(l) : l \in {x \in LicenseInputs \cup TypedLicenseInputs : Truthy(x)}} \cup IpInputs

\* the causes a rejected signing call can have
Causes == {"CredentialsProviderError", "ECONNREFUSED"}

\* requests in flight at once
MaxInFlight == 2
Slots == 1..MaxInFlight

\* requests received in a run
MaxRequests == 1

\* requests received in a run of the rate-limit specification
RateRequests == 32

\* the clock: it starts TickStep * 2 before the first expiry date of the table
\* and advances TickStep at a time, MaxTicks times
TickStep == 5 * 60
MaxTicks == 4
BootTime == DateParse(D_2026_01_01) - 2 * TickStep

(* ------------------------------------------------------------------ *)
(* State                                                               *)
(* ------------------------------------------------------------------ *)

VARIABLES
  now,       \* the clock, seconds since the epoch
  hits,      \* the limiter's store: key -> [count, resetTime]
  arrivals,  \* history: per identity, the window its requests arrive in and their number
  served,    \* history: requests received so far
  lastGrant, \* history: the body and the URL of the latest success response
  req        \* per slot, the request being handled and what happened to it
             \* (history: ordinal, renewed, hitsBefore, trace, signs, cause, sent, prev,
             \* overlap)

vars == <<licenses, now, hits, arrivals, served, lastGrant, req>>

NoUrl == [Key |-> <<>>, date |-> 0, expires |-> 0]
NoGrant == [body |-> [license |-> Undefined, domain |-> Undefined, file |-> Undefined],
            url |-> NoUrl]

IdleReq ==
  [pc |-> "idle", body |-> [license |-> Undefined, domain |-> Undefined, file |-> Undefined],
   ip |-> <<>>, at |-> 0, ordinal |-> 0, renewed |-> FALSE, hitsBefore |-> 0, trace |-> <<>>, sign |-> NoSign, signs |-> 0,
   cause |-> "none", res |-> NoRes, resAt |-> 0, sent |-> 0, prev |-> NoGrant,
   overlap |-> 0]

Init ==
  /\ licenses = LICENSES
  /\ now = BootTime
  /\ hits = [k \in Identities |-> NoBucket]
  /\ arrivals = [k \in Identities |-> [start |-> 0, count |-> 0]]
  /\ served = 0
  /\ lastGrant = NoGrant
  /\ req = [r \in Slots |-> IdleReq]

\* history: the request arriving at t is the count-th of its identity in the window
Arrive(a, key, t) ==
  IF a[key].count = 0 \/ t - a[key].start >= windowMs
    THEN [a EXCEPT ![key] = [start |-> t, count |-> 1]]
    ELSE [a EXCEPT ![key].count = @ + 1]

\* what becomes of a request whose async handler threw. Express 4 drops the
\* rejected promise: it reaches the unhandledRejection handler, which logs it,
\* and the request stays without a response ("hung"). Express 5 passes the
\* rejection to its error handler, which answers 500 ("error500"). The source
\* does not fix the version.
asyncThrowOutcomes == {"hung", "error500"}

\* the response of the framework's default error handler
frameworkError == ErrorRes(500, "none")

\* a request arrives and runs to its response, to the await of the signing
\* call, or to the throw that ends its handler
Receive(r, body, ip) ==
  LET key == keyGenerator(body, ip)
      a   == Arrive(arrivals, key, now)
      out == RunStack(1, hits, <<>>, body, ip, now)
  IN /\ req[r].pc = "idle"
     /\ licenses' = IF "validateLicense" \in Range(out.trace)
                      THEN validateLicenseEffect(licenses, JsString(body.license), now)
                      ELSE licenses
     /\ hits' = out.hits
     /\ arrivals' = a
     /\ served' = served + 1
     /\ \E o \in (IF out.threw THEN asyncThrowOutcomes ELSE {"returned"}) :
        LET res == IF o = "error500" THEN frameworkError ELSE out.res
            responded == res.status # 0
        IN req' = [req EXCEPT ![r] =
          [pc |-> IF o = "hung" THEN "hung"
                  ELSE IF responded THEN "responded" ELSE "signing",
           body |-> body, ip |-> ip, at |-> now, ordinal |-> a[key].count,
           renewed |-> arrivals[key].count > 0 /\ a[key].count = 1,
           hitsBefore |-> hits[key].count,
           trace |-> out.trace, sign |-> out.sign,
           signs |-> IF out.sign = NoSign THEN 0 ELSE 1,
           cause |-> "none", res |-> res,
           resAt |-> IF responded THEN now ELSE 0,
           sent |-> IF responded THEN 1 ELSE 0,
           prev |-> NoGrant, overlap |-> 0]]
     /\ UNCHANGED <<now, lastGrant>>

\* history: the other requests awaiting their signing call
Awaiting(r) == {q \in Slots \ {r} : req[q].pc = "signing"}

\* the file of a handler that keeps it in a variable shared by the requests in
\* flight: what the one received on the highest slot wrote
fileShared(r) ==
  LET q == CHOOSE q \in Awaiting(r) \cup {r} : \A p \in Awaiting(r) \cup {r} : p <= q
  IN req[q].body.file.s

\* file, as the handler of request r reads it after its await: a const of the
\* handler's own invocation, destructured from its req.body
fileOf(r) == req[r].body.file.s

\* getSignedUrl resolves: the URL carries the key, the signing instant and the validity
SignResolve(r) ==
  /\ req[r].pc = "signing"
  /\ LET signedUrl == [Key |-> req[r].sign.Key, date |-> req[r].sign.at,
                       expires |-> req[r].sign.expiresIn]
     IN /\ req' = [req EXCEPT ![r].pc = "responded",
                              ![r].res = SuccessRes(signedUrl, fileOf(r), now),
                              ![r].resAt = now,
                              ![r].sent = @ + 1,
                              ![r].overlap = Cardinality(Awaiting(r)),
                              ![r].prev = lastGrant]
        /\ lastGrant' = [body |-> req[r].body, url |-> signedUrl]
  /\ UNCHANGED <<licenses, now, hits, arrivals, served>>

\* getSignedUrl rejects
SignReject(r, cause) ==
  /\ req[r].pc = "signing"
  /\ req' = [req EXCEPT ![r].pc = "responded",
                        ![r].cause = cause,
                        ![r].res = SignFailedRes(cause),
                        ![r].resAt = now,
                        ![r].sent = @ + 1,
                        ![r].overlap = Cardinality(Awaiting(r))]
  /\ UNCHANGED <<licenses, now, hits, arrivals, served, lastGrant>>

Tick ==
  /\ now < BootTime + MaxTicks * TickStep
  /\ now' = now + TickStep
  /\ UNCHANGED <<licenses, hits, arrivals, served, lastGrant, req>>

\* the response has been delivered and the handler's frame is gone
Retire(r) ==
  /\ req[r].pc = "responded"
  /\ req' = [req EXCEPT ![r] = IdleReq]
  /\ UNCHANGED <<licenses, now, hits, arrivals, served, lastGrant>>

\* requests on the slots S, their bodies from B and their addresses from I, n in all
Handling(S, B, I, n) ==
  \/ \E r \in S, body \in B, ip \in I : served < n /\ Receive(r, body, ip)
  \/ \E r \in S : SignResolve(r)
  \/ \E r \in S, cause \in Causes : SignReject(r, cause)
  \/ \E r \in S : Retire(r)

\* the same while the clock advances
NextOver(S, B, I, n) ==
  \/ Handling(S, B, I, n)
  \/ Tick

\* one request at a time, its body any combination of the inputs
Next == NextOver({1}, Bodies, IpInputs, MaxRequests)

Spec == Init /\ [][Next]_vars

\* one identity again and again: a valid request, or one that fails validation
RateBodies ==
  { [license |-> JStr(K_ABC), domain |-> JStr(H_xlocalhost), file |-> JStr(F_theme_a_demo)],
    [license |-> JStr(K_ABC), domain |-> JStr(H_evil), file |-> JStr(F_theme_a_demo)] }

NextRate == NextOver({1}, RateBodies, {IP_1}, RateRequests)

SpecRate == Init /\ [][NextRate]_vars

\* valid requests repeated, for one file or another
RepeatRequests == 3
RepeatBodies ==
  { [license |-> JStr(K_ABC), domain |-> JStr(H_localhost), file |-> JStr(F_theme_a_demo)],
    [license |-> JStr(K_ABC), domain |-> JStr(H_localhost), file |-> JStr(F_theme_b_demo)] }

NextRepeat == NextOver({1}, RepeatBodies, {IP_1}, RepeatRequests)

SpecRepeat == Init /\ [][NextRepeat]_vars

\* file names: every string of MaxPrefix characters at most over FileAlphabet,
\* followed by one of FileSuffixes, and files of the table
MaxPrefix == 2
FileAlphabet == {"a", "_", "-", "/", ".", ";"}
FilePrefixes == UNION {[1..n -> FileAlphabet] : n \in 0..MaxPrefix}
FileSuffixes ==
  { <<>>, <<".", "z", "i", "p">>, <<".", "z", "i">>, <<"z", "i", "p">>,
    <<".", "z", "i", "p", ";">>, <<".", "Z", "I", "P">> }
FileStrings ==
  {p \o x : p \in FilePrefixes, x \in FileSuffixes} \cup {F_theme_a_demo, F_passwd}
FileBodies ==
  { [license |-> JStr(K_ABC), domain |-> JStr(H_localhost), file |-> JStr(f)] :
      f \in FileStrings }

\* requests in flight together, within one clock reading: two entitled ones for
\* different files, one for a domain that is not allowed, one for a file that
\* is not permitted
ConcRequests == 2
ConcBodies ==
  { [license |-> JStr(K_ABC), domain |-> JStr(H_localhost), file |-> JStr(F_theme_a_demo)],
    [license |-> JStr(K_ABC), domain |-> JStr(H_localhost), file |-> JStr(F_theme_b_demo)],
    [license |-> JStr(K_ABC), domain |-> JStr(H_evil), file |-> JStr(F_theme_a_demo)],
    [license |-> JStr(K_TEST), domain |-> JStr(H_localhost), file |-> JStr(F_theme_a_demo)] }

NextConc == Handling(Slots, ConcBodies, {IP_1}, ConcRequests)

SpecConc == Init /\ [][NextConc]_vars

\* one request at a time, its fields strings or numbers
NextTypes == NextOver({1}, TypedBodies, {IP_1}, MaxRequests)

SpecTypes == Init /\ [][NextTypes]_vars

NextFile == Handling({1}, FileBodies, {IP_1}, MaxRequests)

SpecFile == Init /\ [][NextFile]_vars

(* ------------------------------------------------------------------ *)
(* Properties                                                          *)
(* ------------------------------------------------------------------ *)

Answered(r) == req[r].pc = "responded"
Handled(r) == req[r].pc # "idle"
Called(r, f) == f \in Range(req[r].trace)
AllPresent(r) ==
  Truthy(req[r].body.license) /\ Truthy(req[r].body.domain) /\ Truthy(req[r].body.file)

\* f is a non-empty run of word characters, hyphens and slashes followed by .zip
MatchesFileGrammar(f) ==
  \E p \in {SubSeq(f, 1, k) : k \in 1..Len(f)} :
    /\ f = p \o <<".", "z", "i", "p">>
    /\ \A i \in 1..Len(p) : p[i] \in WordChars \cup {"-", "/"}

\* needle is one of the contiguous pieces of hay
Contains(hay, needle) ==
  \E i \in 1..(Len(hay) + 1) : \E j \in (i - 1)..Len(hay) : SubSeq(hay, i, j) = needle

\* the instants 2026-01-01T00:00:00Z and 2026-12-31T00:00:00Z
Epoch_2026_01_01 == 1767225600
Epoch_2026_12_31 == 1798675200

ExpiryInstant(key) == IF key = K_TEST THEN Epoch_2026_01_01 ELSE Epoch_2026_12_31

\* the instant an ISO timestamp "YYYY-MM-DDTHH:mm:ss.000Z" names
ParseISO(s) ==
  DaysFromCivil(ToNumber(s, 1, 4), ToNumber(s, 6, 7), ToNumber(s, 9, 10)) * 86400
  + ToNumber(s, 12, 13) * 3600 + ToNumber(s, 15, 16) * 60 + ToNumber(s, 18, 19)

\* C1: a request that is the 31st or a later one of its identity within one
\* 15-minute window is answered 429 "Too many requests. Please try again later."
C1_OverBudgetIs429 ==
  \A r \in Slots :
    (Answered(r) /\ req[r].ordinal > max) =>
      (req[r].res.status = 429 /\ req[r].res.error = tooManyRequests)

\* C2: every request passes the rate check before anything else of the
\* pipeline, and a request over the budget never reaches validateLicense
C2_RateCheckFirst ==
  \A r \in Slots :
    Handled(r) =>
      /\ req[r].trace # <<>>
      /\ req[r].trace[1] = "limiter"
      /\ (req[r].ordinal > max => ~Called(r, "validateLicense"))

\* the request of slot r is entitled at the instant it was validated
Entitled(r) ==
  LET b == req[r].body IN
  /\ AllPresent(r)
  /\ b.license.s \in DOMAIN LICENSES
  /\ LICENSES[b.license.s].active
  /\ req[r].at <= ExpiryInstant(b.license.s)
  /\ \E d \in Range(LICENSES[b.license.s].domains) : Contains(b.domain.s, d)
  /\ b.file.s \in Range(LICENSES[b.license.s].files)
  /\ MatchesFileGrammar(b.file.s)

C4_UnknownKeyNotFound ==
  \A r \in Slots :
    (Answered(r) /\ AllPresent(r) /\ MatchesFileGrammar(req[r].body.file.s)
       /\ req[r].body.license.s \notin DOMAIN LICENSES)
      => (req[r].res.status = 403 /\ req[r].res.error = licenseNotFound)

MissingField(r) == Handled(r) /\ ~AllPresent(r)

\* C5: a request with a missing field is answered 400 "Missing license, domain,
\* or file", calls none of validateFileName, validateLicense, generateSignedUrl,
\* and raises the limiter's count of its identity by one at most
C5_MissingFields ==
  \A r \in Slots :
    MissingField(r) =>
      /\ Answered(r)
      /\ req[r].res.status = 400
      /\ req[r].res.error = missingFields
      /\ req[r].trace \in {<<>>, <<"limiter">>}
      /\ req[r].signs = 0
      /\ hits[keyGenerator(req[r].body, req[r].ip)].count <= req[r].hitsBefore + 1

C5_Witness ==
  \E r \in Slots :
    /\ MissingField(r)
    /\ req[r].body.license = JStr(K_ABC)
    /\ req[r].body.file = Undefined
    /\ req[r].res.status = 400

\* C6: a request with all three fields whose file does not match the
\* file-name grammar is answered 400 "Invalid file name" and never reaches
\* validateLicense
C6_InvalidFileName ==
  \A r \in Slots :
    (Handled(r) /\ AllPresent(r) /\ ~MatchesFileGrammar(req[r].body.file.s)) =>
      /\ Answered(r)
      /\ req[r].res.status = 400
      /\ req[r].res.error = invalidFileName
      /\ ~Called(r, "validateLicense")
      /\ ~Called(r, "generateSignedUrl")

C6_Witness ==
  \E r \in Slots :
    /\ req[r].body.license = JStr(K_ABC)
    /\ req[r].body.file = JStr(F_pkg_rm)
    /\ Truthy(req[r].body.domain)
    /\ req[r].res.status = 400
    /\ req[r].res.error = invalidFileName

\* the request of slot r reached the expiry check of an existing, active record
ReachedExpiryCheck(r) ==
  /\ Handled(r)
  /\ Called(r, "validateLicense")
  /\ req[r].body.license.s \in DOMAIN LICENSES
  /\ LICENSES[req[r].body.license.s].active

RejectedAs(r, error) == Answered(r) /\ req[r].res.status = 403 /\ req[r].res.error = error

\* C7: for an existing, active record the answer is 403 "License expired"
\* exactly when the clock is strictly later than the instant of its expiry date
C7_ExpiredIffLater ==
  \A r \in Slots :
    ReachedExpiryCheck(r) =>
      (RejectedAs(r, licenseExpired) <=> req[r].at > ExpiryInstant(req[r].body.license.s))

C7_Witness ==
  \E r \in Slots :
    /\ ReachedExpiryCheck(r)
    /\ req[r].body.license = JStr(K_TEST)
    /\ req[r].at > Epoch_2026_01_01
    /\ RejectedAs(r, licenseExpired)

\* the request of slot r reached the domain check
ReachedDomainCheck(r) ==
  /\ ReachedExpiryCheck(r)
  /\ req[r].at <= ExpiryInstant(req[r].body.license.s)

C9_SuccessPayload ==
  \A r \in Slots :
    req[r].res.status = 200 =>
      /\ req[r].res.data.url.Key # <<>>
      /\ req[r].res.data.url.Key = req[r].body.file.s
      /\ req[r].res.data.url.expires = 600
      /\ req[r].sign.expiresIn = 600
      /\ req[r].res.data.expires_in = 600
      /\ ParseISO(req[r].res.data.expires_at) = req[r].resAt + 600
      /\ req[r].res.data.file = req[r].body.file.s

C9_Witness ==
  \E r \in Slots :
    /\ req[r].res.status = 200
    /\ req[r].resAt > req[r].at

C11_WindowResets ==
  \A r \in Slots :
    (Handled(r) /\ req[r].renewed) =>
      LET b == hits[keyGenerator(req[r].body, req[r].ip)] IN
      /\ b.count = 1
      /\ b.resetTime = req[r].at + windowMs
      /\ req[r].res.status # 429

\* the success response of r follows a success response to the same body
Repeated(r) ==
  /\ Answered(r) /\ req[r].res.status = 200
  /\ req[r].prev # NoGrant /\ req[r].prev.body = req[r].body

\* C12 as stated: a valid request repeated gets a signed URL distinct from the
\* one its earlier repetition got
C12_RepeatGetsDistinctUrl ==
  \A r \in Slots : Repeated(r) => req[r].res.data.url # req[r].prev.url

\* C12: every success response carries the URL of one signing call of its own,
\* made for the request's file at the instant it was handled, whatever was
\* granted before; so a repetition gets the earlier URL again exactly when it
\* is signed within the same second as the earlier one
C12_SignedAfresh ==
  \A r \in Slots :
    (Answered(r) /\ req[r].res.status = 200) =>
      /\ req[r].signs = 1
      /\ req[r].res.data.url =
           [Key |-> req[r].body.file.s, date |-> req[r].at, expires |-> signExpiresIn]
      /\ Repeated(r) =>
           (req[r].res.data.url = req[r].prev.url <=> req[r].prev.url.date = req[r].at)

C12_Witness ==
  \E r \in Slots : Repeated(r) /\ req[r].res.data.url # req[r].prev.url

\* the reason of the earliest failing check, in the order not found, inactive,
\* expired, domain not allowed, file not permitted ("none": every check passes)
FirstFailingReason(license, domain, file, t) ==
  IF license \notin DOMAIN LICENSES THEN licenseNotFound
  ELSE IF ~LICENSES[license].active THEN licenseInactive
  ELSE IF t > ExpiryInstant(license) THEN licenseExpired
  ELSE IF ~(\E d \in Range(LICENSES[license].domains) : Contains(domain, d))
    THEN domainNotAllowed
  ELSE IF file \notin Range(LICENSES[license].files) THEN fileNotPermitted
  ELSE "none"

\* C13: a request that reaches validateLicense is answered 403 with the reason
\* of the earliest failing check in the order not found, inactive, expired,
\* domain not allowed, file not permitted, and is not answered 403 when none fails
C13_FirstFailingReason ==
  \A r \in Slots :
    (Handled(r) /\ Called(r, "validateLicense")) =>
      LET b == req[r].body
          reason == FirstFailingReason(b.license.s, b.domain.s, b.file.s, req[r].at)
      IN IF reason = "none"
           THEN req[r].res.status # 403
           ELSE RejectedAs(r, reason)

DotDot == <<".", ".">>

IdentityOf(r) ==
  IF Truthy(req[r].body.license) THEN req[r].body.license.s ELSE req[r].ip

\* C15: a request is counted in the bucket of its license when it supplies one
\* and of its address otherwise, whatever address it comes from, and in no
\* other bucket: every bucket counts the requests of its own identity only
C15_BucketByIdentity ==
  \A r \in Slots :
    Handled(r) =>
      /\ hits[IdentityOf(r)].count = req[r].ordinal
      /\ \A k \in Identities \ {IdentityOf(r)} : hits[k].count = arrivals[k].count

\* C16: in every reachable state the license table is the one of process start:
\* the same keys, and for each the same active flag, expiry date, allowed
\* domains and allowed files, whatever requests were handled and however answered
C16_TableUnchanged ==
  /\ DOMAIN licenses = DOMAIN LICENSES
  /\ \A k \in DOMAIN LICENSES :
       /\ licenses[k].active = LICENSES[k].active
       /\ licenses[k].expires = LICENSES[k].expires
       /\ licenses[k].domains = LICENSES[k].domains
       /\ licenses[k].files = LICENSES[k].files

C16_Witness ==
  /\ licenses = LICENSES
  /\ \E r \in Slots : RejectedAs(r, licenseExpired) /\ req[r].body.license = JStr(K_TEST)

\* the response of r is one its own license, domain and file allow at the
\* instant it was handled
OwnOutcome(r) ==
  LET b == req[r].body
      reason == FirstFailingReason(b.license.s, b.domain.s, b.file.s, req[r].at)
  IN IF reason # "none"
       THEN req[r].res = ErrorRes(403, reason)
       ELSE \/ req[r].res = ErrorRes(500, signFailed)
            \/ /\ req[r].res.status = 200
               /\ req[r].res.data.file = b.file.s
               /\ req[r].res.data.url =
                    [Key |-> b.file.s, date |-> req[r].at, expires |-> signExpiresIn]

\* C17: whatever other requests are in flight and however they interleave at
\* the await of the signing call, the status, error, data.file and URL of a
\* response are those of the request's own license, domain and file
C17_OwnResponse ==
  \A r \in Slots :
    (Answered(r) /\ AllPresent(r) /\ MatchesFileGrammar(req[r].body.file.s)) => OwnOutcome(r)

C17_Witness ==
  \E r \in Slots, q \in Slots :
    /\ Answered(r) /\ req[r].res.status = 200 /\ req[r].overlap > 0
    /\ req[q].pc = "signing" /\ req[q].body.file # req[r].body.file

ResponseStatuses == {200, 400, 403, 429, 500}

\* C18: a request the server has received, and whose signing call is not still
\* pending, has exactly one response, with a status among 200, 400, 403, 429
\* and 500, whatever the types of its license, domain and file
C18_AlwaysAnswered ==
  \A r \in Slots :
    (Handled(r) /\ req[r].pc # "signing") =>
      /\ Answered(r)
      /\ req[r].sent = 1
      /\ req[r].res.status \in ResponseStatuses

\* C19: the expires_at of a success response is no later than the instant the
\* signed URL stops being valid, the signing instant plus its validity
C19_ExpiresAtWithinValidity ==
  \A r \in Slots :
    (Answered(r) /\ req[r].res.status = 200) =>
      ParseISO(req[r].res.data.expires_at)
        <= req[r].res.data.url.date + req[r].res.data.url.expires

====
